---- MODULE Spec2Model ----
(***************************************************************************)
(* Input unification layer of mcg-creator/hh: InputManager.update(ts)     *)
(* (src/input.js) polling GamepadManager (src/gamepad.js) and the         *)
(* keyboard adapter, resolving one navigation direction per frame and     *)
(* turning it into nav edge/repeat events and select events.              *)
(*                                                                         *)
(* One step of the model is one call of update(ts): the environment       *)
(* presents the hardware snapshot of the frame and the whole handler      *)
(* runs.  Analog axis values are integers in hundredths (0.32 is 32).     *)
(***************************************************************************)
EXTENDS Integers, Sequences, FiniteSets, TLC

\* ---------------------------------------------------------------- constants
_firstDelay == 220
_repeatDelay == 85
_deadzone == 32

None == "none"
Dirs == {"left", "right", "up", "down"}
DpadButtons == {"LEFT", "RIGHT", "UP", "DOWN"}
\* keys of the name -> index map of GamepadManager.justPressed that the model tracks
MapButtons == {"A", "B", "X", "Y", "LB", "RB", "LT", "RT", "VIEW", "MENU"}
Triggers == {"LT", "RT"}
triggerThreshold == 10
KeyNames == {"SELECT"}

\* ------------------------------------------------------------------- bounds
\* last frame timestamp of the coarse-clock specifications
MaxTs == 400
\* last frame timestamp of the fine-clock (timer) specification
TimerMaxTs == 312
\* last frame timestamp of the specification with a clock that keeps advancing
LiveMaxTs == 800

\* sounds requested through queueOrPlay in a run
MaxSounds == 3
\* unlock attempts in flight before a frame or gesture may start another
MaxUnlocks == 2

\* frame-to-frame clock advances; 400 is a gap longer than first delay plus two repeats
CoarseDeltas == {0, 400}
FineDeltas == {0, 12, 75, 100, 125, 220}
ScenarioTs == <<0, 100, 225, 300, 312>>
\* controls the environment moves in each specification
CoordButtons == {"A", "LEFT"}
CoordSticks == {<<0, 0>>, <<90, 0>>}
CoordArrows == {None, "up", "right"}
ResolveSticks == {<<0, 0>>, <<90, 0>>, <<-31, 90>>, <<31, -31>>}

VARIABLES
    hwPad,          \* what navigator.getGamepads() shows at the poll of the frame
    hwKeys,         \* what the keyboard shows at the poll of the frame
    pad,            \* GamepadManager.pad (connected = FALSE stands for null)
    _prevButtons,   \* GamepadManager._prevButtons, as the set of names cached true
    _justPressed,   \* GamepadManager._justPressed, as the set of names cached true
    axes,           \* GamepadManager.axes (left stick pair)
    kbPrev,         \* keyboard adapter: keys down at the previous poll
    kbJust,         \* keyboard adapter: keys that went down at this poll
    preferGamepad,  \* InputManager.preferGamepad
    _activeDir,     \* InputManager._activeDir
    _nextRepeatAt,  \* InputManager._nextRepeatAt
    ts,             \* timestamp passed to the last update(ts)
    events,         \* events emitted by the last update(ts), in emission order
    dir,            \* direction resolved by the last update(ts)
    runNav,         \* last nav event of the current run of one direction
    before,         \* timer state and observations at entry of the last update(ts)
    scn,            \* progress through the timestamps of ScenarioTs while right is held
    eventListeners, \* InputManager.eventListeners: type -> callbacks in registration order
    calls,          \* listener invocations made by the last update(ts), in order
    rumbles,        \* rumble requests made by the last operation, with their outcome
    threw,          \* whether the last update(ts) was left by an exception
    probe,          \* last direct call of a pure helper: arguments and result
    adapterCalls,   \* adapter methods called by the last update(ts), in order
    rafQueue,       \* number of tick callbacks requestAnimationFrame holds
    legacy,         \* InputManager.currentDirection, lastInputTime, isFirstInput, and
                    \* the nav events of the last processNavigationInputs()
    main            \* main.js: audioUnlocked, focusRegion, pendingSounds; the unlock
                    \* attempts in flight and resolved; the sounds requested and
                    \* played so far; the last nav event its listener handled

vars == <<hwPad, hwKeys, pad, _prevButtons, _justPressed, axes, kbPrev, kbJust,
          preferGamepad, _activeDir, _nextRepeatAt, ts, events, dir, runNav,
          before, scn, eventListeners, calls, rumbles, threw, probe,
          adapterCalls, rafQueue, main, legacy>>

\* actuator: "none" (no vibrationActuator), "ok", or "fails" (playEffect fails)
\* value: the analog value of each trigger button, in hundredths
NullPad == [connected |-> FALSE, buttons |-> {}, axes |-> <<0, 0>>, actuator |-> None,
            value |-> [t \in Triggers |-> 0]]
NoProbe == [call |-> None]
NoHandled == [dir |-> None, mode |-> None, region |-> "nav", requests |-> 0,
              unlocked |-> FALSE]
NoNav == [mode |-> None, ts |-> 0, n |-> 0]

\* the not-a-number an axis may read; it lies outside every axis value
NaN == 1000

\* Math.abs and the numeric comparisons; a comparison with NaN is false
Abs(x) == IF x = NaN THEN NaN ELSE IF x < 0 THEN -x ELSE x
Lt(a, b) == a # NaN /\ b # NaN /\ a < b
Gt(a, b) == a # NaN /\ b # NaN /\ a > b
Ge(a, b) == a # NaN /\ b # NaN /\ a >= b
\* v || 0
OrZero(v) == IF v = NaN \/ v = 0 THEN 0 ELSE v

NavEvent(d, m) == [type |-> "nav", dir |-> d, mode |-> m]
SelectEvent(s) == [type |-> "select", source |-> s]
IsNav(e) == e.type = "nav"
IsSelect(e) == e.type = "select"
NavsOf(es) == SelectSeq(es, IsNav)
SelectsOf(es) == SelectSeq(es, IsSelect)

\* --------------------------------------------------------------- listeners
NoListeners == [t \in {} |-> <<>>]

\* on(type, callback)
on(ls, type, cb) ==
    IF type \notin DOMAIN ls THEN ls @@ (type :> <<cb>>)
    ELSE [ls EXCEPT ![type] = Append(@, cb)]

\* a callback that throws when it is invoked
Thrower == "boom"

\* forEach stops at the first callback that throws
UntilThrow(cs) ==
    IF \E i \in 1..Len(cs) : cs[i].cb = Thrower
    THEN SubSeq(cs, 1, CHOOSE i \in 1..Len(cs) :
                          /\ cs[i].cb = Thrower
                          /\ \A j \in 1..(i - 1) : cs[j].cb # Thrower)
    ELSE cs

\* emit(type, payload): the invocations it makes, in order
emitReversed(ls, e) ==
    IF e.type \in DOMAIN ls
    THEN UntilThrow([i \in 1..Len(ls[e.type]) |->
                      [cb |-> ls[e.type][Len(ls[e.type]) + 1 - i], event |-> e]])
    ELSE <<>>

emit(ls, e) ==
    IF e.type \in DOMAIN ls
    THEN UntilThrow([i \in 1..Len(ls[e.type]) |-> [cb |-> ls[e.type][i], event |-> e]])
    ELSE <<>>

\* whether emit(type, payload) is left by an exception of a callback
emitThrows(ls, e) ==
    \E i \in 1..Len(emit(ls, e)) : emit(ls, e)[i].cb = Thrower

RECURSIVE DispatchAll(_, _)
\* the emits of one update(ts), one after the other
DispatchAll(ls, evs) ==
    IF evs = <<>> THEN <<>>
    ELSE emit(ls, Head(evs)) \o DispatchAll(ls, Tail(evs))

\* ------------------------------------------------------------ GamepadManager
\* update(): first connected pad or null; button cache, edge cache, axes copy
GamepadUpdateKeepsPrev(hw, prev) ==
    IF hw.connected
    THEN [pad |-> hw,
          _justPressed |-> (hw.buttons \cap MapButtons) \ prev,
          _prevButtons |-> hw.buttons \cap MapButtons,
          axes |-> hw.axes]
    ELSE [pad |-> NullPad, _prevButtons |-> prev, _justPressed |-> {}, axes |-> <<0, 0>>]

GamepadUpdateKeepsPad(hw, prev) ==
    IF hw.connected
    THEN [pad |-> hw,
          _justPressed |-> (hw.buttons \cap MapButtons) \ prev,
          _prevButtons |-> hw.buttons \cap MapButtons,
          axes |-> hw.axes]
    ELSE [pad |-> pad, _prevButtons |-> prev, _justPressed |-> {}, axes |-> axes]

GamepadUpdate(hw, prev) ==
    IF hw.connected
    THEN [pad |-> hw,
          _justPressed |-> (hw.buttons \cap MapButtons) \ prev,
          _prevButtons |-> hw.buttons \cap MapButtons,
          axes |-> hw.axes]
    ELSE [pad |-> NullPad, _prevButtons |-> {}, _justPressed |-> {}, axes |-> <<0, 0>>]

isConnected(p) == p.connected

getStickRaw(p, ax, name) ==
    IF ~p.connected THEN <<0, 0>>
    ELSE IF name = "LEFT" THEN ax ELSE <<0, 0>>

getStick(p, ax, name) ==
    IF ~p.connected THEN <<0, 0>>
    ELSE IF name = "LEFT" THEN <<OrZero(ax[1]), OrZero(ax[2])>> ELSE <<0, 0>>

\* present = FALSE stands for the null an absent pad gives
getDpad(p) ==
    IF ~p.connected THEN [present |-> FALSE, up |-> FALSE, down |-> FALSE,
                          left |-> FALSE, right |-> FALSE]
    ELSE [present |-> TRUE,
          up |-> "UP" \in p.buttons, down |-> "DOWN" \in p.buttons,
          left |-> "LEFT" \in p.buttons, right |-> "RIGHT" \in p.buttons]

justPressed(p, jp, name) ==
    IF ~p.connected THEN FALSE
    ELSE IF name \in MapButtons THEN name \in jp ELSE FALSE

\* ----------------------------------------------------------- keyboard adapter
KeyboardUpdate(hw, prev) ==
    [kbJust |-> hw.keys \ prev, kbPrev |-> hw.keys]

kbJustPressed(just, name) == name \in just

getArrowDir(hw) == hw.arrow

\* -------------------------------------------------------------- InputManager
DominantDirClosedDeadzone(ax, ay) ==
    IF ~Gt(Abs(ax), _deadzone) /\ ~Gt(Abs(ay), _deadzone) THEN None
    ELSE IF Ge(Abs(ax), Abs(ay)) THEN (IF Gt(ax, 0) THEN "right" ELSE "left")
    ELSE (IF Gt(ay, 0) THEN "down" ELSE "up")

DominantDirTieVertical(ax, ay) ==
    IF Lt(Abs(ax), _deadzone) /\ Lt(Abs(ay), _deadzone) THEN None
    ELSE IF Gt(Abs(ax), Abs(ay)) THEN (IF Gt(ax, 0) THEN "right" ELSE "left")
    ELSE (IF Gt(ay, 0) THEN "down" ELSE "up")

_getDominantDirFromAxes(ax, ay) ==
    IF Lt(Abs(ax), _deadzone) /\ Lt(Abs(ay), _deadzone) THEN None
    ELSE IF Ge(Abs(ax), Abs(ay)) THEN (IF Gt(ax, 0) THEN "right" ELSE "left")
    ELSE (IF Gt(ay, 0) THEN "down" ELSE "up")

\* auto-switch once a gamepad is detected
PreferFollowsConnection(prefer, connected) == connected

PreferAfterPoll(prefer, connected) == IF connected THEN TRUE ELSE prefer

\* SELECT (A button or keyboard), edge only
SelectEmitTwice(prefer, aPressed, kSelect) ==
    (IF aPressed THEN <<SelectEvent("gamepad")>> ELSE <<>>)
    \o (IF kSelect THEN <<SelectEvent("keyboard")>> ELSE <<>>)

SelectEventsPreferredOnly(prefer, aPressed, kSelect) ==
    IF (prefer /\ aPressed) \/ (~prefer /\ kSelect)
    THEN <<SelectEvent(IF prefer THEN "gamepad" ELSE "keyboard")>>
    ELSE <<>>

SelectEvents(prefer, aPressed, kSelect) ==
    IF aPressed \/ kSelect
    THEN <<SelectEvent(IF prefer THEN "gamepad" ELSE "keyboard")>>
    ELSE <<>>

\* select is emitted before the navigation step emits nav
EmissionNavFirst(sel, navs) == navs \o sel

EmissionOrder(sel, navs) == sel \o navs

\* rumble(intensity, duration) of GamepadManager: the playEffect calls made on
\* the hardware and how the returned promise settles
GamepadRumbleUncaught(p, intensity, duration) ==
    IF ~p.connected \/ p.actuator = None
    THEN [intensity |-> intensity, duration |-> duration, effects |-> <<>>,
          result |-> "resolved"]
    ELSE [intensity |-> intensity, duration |-> duration,
          effects |-> <<[strong |-> intensity, weak |-> (intensity * 7) \div 10,
                       duration |-> duration]>>,
          result |-> IF p.actuator = "fails" THEN "rejected" ELSE "resolved"]

GamepadRumble(p, intensity, duration) ==
    IF ~p.connected \/ p.actuator = None
    THEN [intensity |-> intensity, duration |-> duration, effects |-> <<>>,
          result |-> "resolved"]
    ELSE [intensity |-> intensity, duration |-> duration,
          effects |-> <<[strong |-> intensity, weak |-> (intensity * 7) \div 10,
                       duration |-> duration]>>,
          \* try/catch around the awaited playEffect
          result |-> "resolved"]

\* rumble(intensity, duration) of InputManager
InputRumble(p, intensity, duration) ==
    IF isConnected(p) THEN GamepadRumble(p, intensity, duration)
    ELSE [intensity |-> intensity, duration |-> duration, effects |-> <<>>,
          result |-> "resolved"]

\* optional rumble after a select: this.rumble(0.4, 100).catch(() => {})
SelectRumbleDefaults(sel, p) ==
    IF sel # <<>> THEN <<InputRumble(p, 50, 200)>> ELSE <<>>

SelectRumble(sel, p) ==
    IF sel # <<>>
    THEN LET r == InputRumble(p, 40, 100)
         \* .catch(() => {}) settles a rejection
         IN  <<[r EXCEPT !.result = IF @ = "rejected" THEN "resolved" ELSE @]>>
    ELSE <<>>

\* prefer D-pad if pressed
DpadDirUpFirst(dpad) ==
    IF dpad.up THEN "up"
    ELSE IF dpad.down THEN "down"
    ELSE IF dpad.left THEN "left"
    ELSE IF dpad.right THEN "right"
    ELSE None

DpadDir(dpad) ==
    IF dpad.left THEN "left"
    ELSE IF dpad.right THEN "right"
    ELSE IF dpad.up THEN "up"
    ELSE IF dpad.down THEN "down"
    ELSE None

\* NAV (D-pad / stick OR arrows)
ResolveDirSticky(prefer, p, ax, kb) ==
    LET dpad == getDpad(p)
        d1 == IF prefer /\ dpad.present THEN DpadDir(dpad) ELSE None
        st == getStick(p, ax, "LEFT")
        d2 == IF d1 = None /\ prefer THEN _getDominantDirFromAxes(st[1], st[2]) ELSE d1
        d3 == IF d2 = None THEN getArrowDir(kb) ELSE d2
    IN  IF d3 = None THEN _activeDir ELSE d3

ResolveDirKeyboardFirst(prefer, p, ax, kb) ==
    LET dpad == getDpad(p)
        d0 == getArrowDir(kb)
        d1 == IF d0 = None /\ prefer /\ dpad.present THEN DpadDir(dpad) ELSE d0
        st == getStick(p, ax, "LEFT")
    IN  IF d1 = None /\ prefer THEN _getDominantDirFromAxes(st[1], st[2]) ELSE d1

ResolveDir(prefer, p, ax, kb) ==
    LET dpad == getDpad(p)
        d1 == IF prefer /\ dpad.present THEN DpadDir(dpad) ELSE None
        st == getStick(p, ax, "LEFT")
        d2 == IF d1 = None /\ prefer THEN _getDominantDirFromAxes(st[1], st[2]) ELSE d1
    IN  IF d2 = None THEN getArrowDir(kb) ELSE d2

\* repeat/edge handling
NavTimerShortFirst(active, nextAt, d, t) ==
    IF d = None THEN [activeDir |-> None, nextRepeatAt |-> 0, events |-> <<>>]
    ELSE IF active # d
         THEN [activeDir |-> d, nextRepeatAt |-> t + _repeatDelay,
               events |-> <<NavEvent(d, "edge")>>]
    ELSE IF t >= nextAt
         THEN [activeDir |-> active, nextRepeatAt |-> t + _repeatDelay,
               events |-> <<NavEvent(d, "repeat")>>]
    ELSE [activeDir |-> active, nextRepeatAt |-> nextAt, events |-> <<>>]

NavTimerKeepDeadline(active, nextAt, d, t) ==
    IF d = None THEN [activeDir |-> None, nextRepeatAt |-> 0, events |-> <<>>]
    ELSE IF active # d
         THEN [activeDir |-> d,
               nextRepeatAt |-> IF active = None THEN t + _firstDelay ELSE nextAt,
               events |-> <<NavEvent(d, "edge")>>]
    ELSE IF t >= nextAt
         THEN [activeDir |-> active, nextRepeatAt |-> t + _repeatDelay,
               events |-> <<NavEvent(d, "repeat")>>]
    ELSE [activeDir |-> active, nextRepeatAt |-> nextAt, events |-> <<>>]

NavTimerStrict(active, nextAt, d, t) ==
    IF d = None THEN [activeDir |-> None, nextRepeatAt |-> 0, events |-> <<>>]
    ELSE IF active # d
         THEN [activeDir |-> d, nextRepeatAt |-> t + _firstDelay,
               events |-> <<NavEvent(d, "edge")>>]
    ELSE IF t > nextAt
         THEN [activeDir |-> active, nextRepeatAt |-> t + _repeatDelay,
               events |-> <<NavEvent(d, "repeat")>>]
    ELSE [activeDir |-> active, nextRepeatAt |-> nextAt, events |-> <<>>]

NavTimerNoReset(active, nextAt, d, t) ==
    IF d = None THEN [activeDir |-> active, nextRepeatAt |-> nextAt, events |-> <<>>]
    ELSE IF active # d
         THEN [activeDir |-> d, nextRepeatAt |-> t + _firstDelay,
               events |-> <<NavEvent(d, "edge")>>]
    ELSE IF t >= nextAt
         THEN [activeDir |-> active, nextRepeatAt |-> t + _repeatDelay,
               events |-> <<NavEvent(d, "repeat")>>]
    ELSE [activeDir |-> active, nextRepeatAt |-> nextAt, events |-> <<>>]

NavTimerStaleDeadline(active, nextAt, d, t) ==
    IF d = None THEN [activeDir |-> None, nextRepeatAt |-> nextAt, events |-> <<>>]
    ELSE IF active # d
         THEN [activeDir |-> d, nextRepeatAt |-> t + _firstDelay,
               events |-> <<NavEvent(d, "edge")>>]
    ELSE IF t >= nextAt
         THEN [activeDir |-> active, nextRepeatAt |-> t + _repeatDelay,
               events |-> <<NavEvent(d, "repeat")>>]
    ELSE [activeDir |-> active, nextRepeatAt |-> nextAt, events |-> <<>>]

NavTimerNoNoneGuard(active, nextAt, d, t) ==
    IF active # d
    THEN [activeDir |-> d, nextRepeatAt |-> t + _firstDelay,
          events |-> <<NavEvent(d, "edge")>>]
    ELSE IF d # None /\ t >= nextAt
         THEN [activeDir |-> active, nextRepeatAt |-> t + _repeatDelay,
               events |-> <<NavEvent(d, "repeat")>>]
    ELSE [activeDir |-> active, nextRepeatAt |-> nextAt, events |-> <<>>]

NavTimerEdgeOnly(active, nextAt, d, t) ==
    IF d = None THEN [activeDir |-> None, nextRepeatAt |-> 0, events |-> <<>>]
    ELSE IF active # d
         THEN [activeDir |-> d, nextRepeatAt |-> t + _firstDelay,
               events |-> <<NavEvent(d, "edge")>>]
    ELSE [activeDir |-> active, nextRepeatAt |-> nextAt, events |-> <<>>]

NavTimerResetDirOnly(active, nextAt, d, t) ==
    IF d = None THEN [activeDir |-> None, nextRepeatAt |-> nextAt, events |-> <<>>]
    ELSE IF active # d
         THEN [activeDir |-> d, nextRepeatAt |-> t + _firstDelay,
               events |-> <<NavEvent(d, "edge")>>]
    ELSE IF t >= nextAt
         THEN [activeDir |-> active, nextRepeatAt |-> t + _repeatDelay,
               events |-> <<NavEvent(d, "repeat")>>]
    ELSE [activeDir |-> active, nextRepeatAt |-> nextAt, events |-> <<>>]

NavTimer(active, nextAt, d, t) ==
    IF d = None THEN [activeDir |-> None, nextRepeatAt |-> 0, events |-> <<>>]
    ELSE IF active # d
         THEN [activeDir |-> d, nextRepeatAt |-> t + _firstDelay,
               events |-> <<NavEvent(d, "edge")>>]
    ELSE IF t >= nextAt
         THEN [activeDir |-> active, nextRepeatAt |-> t + _repeatDelay,
               events |-> <<NavEvent(d, "repeat")>>]
    ELSE [activeDir |-> active, nextRepeatAt |-> nextAt, events |-> <<>>]

\* ---------------------------------------------------------------- observers
\* last nav event of the current maximal run of one resolved direction
RunNavAfter(rn, prevDir, d, navs, t) ==
    IF d = None THEN NoNav
    ELSE IF navs # <<>>
         THEN [mode |-> navs[Len(navs)].mode, ts |-> t,
               n |-> (IF d # prevDir THEN 0 ELSE rn.n) + Len(navs)]
    ELSE IF d # prevDir THEN NoNav
    ELSE rn

\* where the frame's timestamp lies relative to the repeat deadline found at entry
Due(active, nextAt, t) ==
    IF active = None THEN "idle"
    ELSE IF t < nextAt THEN "early"
    ELSE IF t = nextAt THEN "exact"
    ELSE "late"

\* which input produced the resolved direction of a frame
SourceOf(prefer, p, ax, kb) ==
    LET dpad == getDpad(p)
        st == getStick(p, ax, "LEFT")
    IN  IF prefer /\ dpad.present /\ DpadDir(dpad) # None THEN "dpad"
        ELSE IF prefer /\ _getDominantDirFromAxes(st[1], st[2]) # None THEN "stick"
        ELSE IF getArrowDir(kb) # None THEN "keyboard"
        ELSE None

ScenarioAfter(s, prevDir, d, t) ==
    IF d # "right" THEN 0
    ELSE IF t = ScenarioTs[1] /\ prevDir # "right" THEN 1
    ELSE IF s \in 1..(Len(ScenarioTs) - 1) /\ t = ScenarioTs[s + 1] THEN s + 1
    ELSE 0

\* ------------------------------------------------------ pass-through queries
\* the logical button names of GamepadManager.BUTTONS
BUTTONS == {"A", "B", "X", "Y", "LB", "RB", "LT", "RT", "VIEW", "MENU", "LS", "RS",
            "UP", "DOWN", "LEFT", "RIGHT", "HOME"}

\* the methods the GamepadManager class defines
GamepadMethods == {"update", "isConnected", "getStick", "getDpad", "justPressed",
                   "getTrigger", "getPressedButtons", "rumble"}

\* the pass-through queries of InputManager
Queries == {"isButtonDown", "justPressed", "justReleased", "getStick", "getTrigger",
            "getPressedButtons"}

\* b.value of the named button, in hundredths: analog for a trigger, 0 or 1
\* for a digital button
ButtonValue(p, name) ==
    IF name \in Triggers THEN p.value[name]
    ELSE IF name \in p.buttons THEN 100 ELSE 0

\* getTrigger(triggerName), in hundredths
getTrigger(p, name) ==
    IF ~p.connected THEN 0
    ELSE IF name \notin BUTTONS THEN 0
    ELSE ButtonValue(p, name)

getPressedButtons(p) ==
    IF ~p.connected THEN {}
    ELSE {name \in BUTTONS :
            \/ name \in p.buttons
            \/ (ButtonValue(p, name) # 0 /\ ButtonValue(p, name) > triggerThreshold)}

\* this.gamepad.<q>(name): calling a method the object lacks raises a TypeError
GamepadQuery(q, name) ==
    IF q \notin GamepadMethods
    THEN [raised |-> TRUE, from |-> "gamepad", value |-> "TypeError"]
    ELSE [raised |-> FALSE, from |-> "gamepad",
          value |-> CASE q = "justPressed" -> justPressed(pad, _justPressed, name)
                      [] q = "getStick" -> getStick(pad, axes, name)
                      [] q = "getTrigger" -> getTrigger(pad, name)
                      [] q = "getPressedButtons" -> getPressedButtons(pad)]

\* this.keyboard.<q>(name): the adapter answers every query with a value
KeyboardQuery(q, name) == [raised |-> FALSE, from |-> "keyboard"]

\* isButtonDown, justPressed, justReleased, getStick, getTrigger,
\* getPressedButtons of InputManager, in the state left by the last update
Query(q, name) ==
    IF preferGamepad /\ isConnected(pad) THEN GamepadQuery(q, name)
    ELSE KeyboardQuery(q, name)

\* getActiveInputMethod()
getActiveInputMethodLatched(prefer, p) == IF prefer THEN "gamepad" ELSE "keyboard"

getActiveInputMethod(prefer, p) ==
    IF prefer /\ isConnected(p) THEN "gamepad" ELSE "keyboard"

\* the adapter methods update() calls, in the order of its statements
AdapterCallsLazyPoll(prefer, sel, p, ax, thr) ==
    LET dpad == getDpad(p)
        d1 == IF prefer /\ dpad.present THEN DpadDir(dpad) ELSE None
        st == getStick(p, ax, "LEFT")
        d2 == IF d1 = None /\ prefer THEN _getDominantDirFromAxes(st[1], st[2]) ELSE d1
    IN  <<"keyboard.update", "gamepad.isConnected">>
        \o (IF prefer THEN <<"gamepad.update", "gamepad.justPressed">> ELSE <<>>)
        \o <<"keyboard.justPressed">>
        \o (IF sel # <<>>
            THEN <<"gamepad.isConnected">>
                 \o (IF isConnected(p) THEN <<"gamepad.rumble">> ELSE <<>>)
            ELSE <<>>)
        \o (IF thr THEN <<>>
            ELSE <<"gamepad.getDpad">>
                 \o (IF d1 = None /\ prefer THEN <<"gamepad.getStick">> ELSE <<>>)
                 \o (IF d2 = None THEN <<"keyboard.getArrowDir">> ELSE <<>>))

AdapterCalls(prefer, sel, p, ax, thr) ==
    LET dpad == getDpad(p)
        d1 == IF prefer /\ dpad.present THEN DpadDir(dpad) ELSE None
        st == getStick(p, ax, "LEFT")
        d2 == IF d1 = None /\ prefer THEN _getDominantDirFromAxes(st[1], st[2]) ELSE d1
    IN  <<"keyboard.update", "gamepad.update", "gamepad.isConnected">>
        \o (IF prefer THEN <<"gamepad.justPressed">> ELSE <<>>)
        \o <<"keyboard.justPressed">>
        \o (IF sel # <<>>
            THEN <<"gamepad.isConnected">>
                 \o (IF isConnected(p) THEN <<"gamepad.rumble">> ELSE <<>>)
            ELSE <<>>)
        \o (IF thr THEN <<>>
            ELSE <<"gamepad.getDpad">>
                 \o (IF d1 = None /\ prefer THEN <<"gamepad.getStick">> ELSE <<>>)
                 \o (IF d2 = None THEN <<"keyboard.getArrowDir">> ELSE <<>>))

\* ------------------------------------------- InputManager, legacy methods
\* hasKeyboardInput(): a navigation key or A is down on the keyboard
hasKeyboardInput(k) == k.arrow # None \/ "SELECT" \in k.keys

\* hasGamepadInput(): asks this.gamepad.isButtonDown of a connected pad
hasGamepadInput(p) ==
    IF ~isConnected(p) THEN [raised |-> FALSE, value |-> FALSE]
    ELSE IF GamepadQuery("isButtonDown", "UP").raised
    THEN [raised |-> TRUE, value |-> FALSE]
    ELSE [raised |-> FALSE,
          value |-> (DpadButtons \cup {"A"}) \cap p.buttons # {}]

\* handleInputPreference(): the preference it leaves, and whether it raised
handleInputPreference(prefer, p, k) ==
    IF prefer /\ hasKeyboardInput(k)
    THEN [preferGamepad |-> FALSE, raised |-> FALSE]
    ELSE IF isConnected(p) /\ ~prefer
    THEN IF hasGamepadInput(p).raised
         THEN [preferGamepad |-> prefer, raised |-> TRUE]
         ELSE [preferGamepad |-> TRUE, raised |-> FALSE]
    ELSE [preferGamepad |-> prefer, raised |-> FALSE]

\* processNavigationInputs(): its timing part, for the direction it resolved
\* and the clock it read; first marks the emit of the changed-direction branch
initialDelay == 220
repeatRate == 85

processNavigationInputsStrict(l, d, now) ==
    IF d = None
    THEN [l EXCEPT !.currentDirection = None, !.isFirstInput = TRUE, !.events = <<>>]
    ELSE IF d # l.currentDirection
    THEN [currentDirection |-> d, lastInputTime |-> now, isFirstInput |-> TRUE,
          events |-> <<[dir |-> d, first |-> TRUE]>>]
    ELSE IF now - l.lastInputTime
              > (IF l.isFirstInput THEN initialDelay ELSE repeatRate)
    THEN [currentDirection |-> d, lastInputTime |-> now, isFirstInput |-> FALSE,
          events |-> <<[dir |-> d, first |-> FALSE]>>]
    ELSE [l EXCEPT !.events = <<>>]

processNavigationInputs(l, d, now) ==
    IF d = None
    THEN [l EXCEPT !.currentDirection = None, !.isFirstInput = TRUE, !.events = <<>>]
    ELSE IF d # l.currentDirection
    THEN [currentDirection |-> d, lastInputTime |-> now, isFirstInput |-> TRUE,
          events |-> <<[dir |-> d, first |-> TRUE]>>]
    ELSE IF now - l.lastInputTime
              >= (IF l.isFirstInput THEN initialDelay ELSE repeatRate)
    THEN [currentDirection |-> d, lastInputTime |-> now, isFirstInput |-> FALSE,
          events |-> <<[dir |-> d, first |-> FALSE]>>]
    ELSE [l EXCEPT !.events = <<>>]

\* ------------------------------------------------------------------ main.js
\* attemptUnlockAudio(): starts a primed play of the sounds unless unlocked;
\* its completion is a later callback
attemptUnlockAudio(m) ==
    IF m.audioUnlocked THEN m ELSE [m EXCEPT !.unlocking = @ + 1]

\* playType(type)
playType(m, type) == [m EXCEPT !.played = Append(@, type)]

\* queueOrPlay(type)
queueOrPlayAlwaysQueues(m, type) ==
    [m EXCEPT !.requested = Append(@, type), !.pendingSounds = Append(@, type)]

queueOrPlay(m, type) ==
    LET r == [m EXCEPT !.requested = Append(@, type)]
    IN  IF m.audioUnlocked THEN playType(r, type)
        ELSE [r EXCEPT !.pendingSounds = Append(@, type)]

\* flushPendingSounds()
flushKeepsQueue(m) ==
    IF m.pendingSounds = <<>> THEN m
    ELSE [m EXCEPT !.played = @ \o m.pendingSounds]

flushPendingSounds(m) ==
    IF m.pendingSounds = <<>> THEN m
    ELSE [m EXCEPT !.pendingSounds = <<>>, !.played = @ \o m.pendingSounds]

\* handleNavSound(dir, mode)
handleNavSoundOnRepeat(m, d, mode) ==
    IF d = "down" /\ m.focusRegion = "nav"
    THEN queueOrPlay([m EXCEPT !.focusRegion = "carousel"], "carousel")
    ELSE IF d = "up" /\ m.focusRegion = "carousel"
    THEN queueOrPlay([m EXCEPT !.focusRegion = "nav"], "nav")
    ELSE IF d = "left" \/ d = "right"
    THEN IF m.focusRegion = "nav" THEN queueOrPlay(m, "nav")
         ELSE queueOrPlay(m, "carouselRow")
    ELSE m

handleNavSound(m, d, mode) ==
    IF mode # "edge" THEN m
    ELSE IF d = "down" /\ m.focusRegion = "nav"
    THEN queueOrPlay([m EXCEPT !.focusRegion = "carousel"], "carousel")
    ELSE IF d = "up" /\ m.focusRegion = "carousel"
    THEN queueOrPlay([m EXCEPT !.focusRegion = "nav"], "nav")
    ELSE IF d = "left" \/ d = "right"
    THEN IF m.focusRegion = "nav" THEN queueOrPlay(m, "nav")
         ELSE queueOrPlay(m, "carouselRow")
    ELSE m

\* the callbacks init() registers for nav and select
navListener(m, e) ==
    LET h == [dir |-> e.dir, mode |-> e.mode, region |-> m.focusRegion,
              requests |-> Len(m.requested), unlocked |-> m.audioUnlocked]
    IN  handleNavSound([attemptUnlockAudio(m) EXCEPT !.handled = h], e.dir, e.mode)

selectListener(m, e) == attemptUnlockAudio(m)

\* the completion of one unlock attempt: Promise.all(...).then / .catch
unlockResolved(m) ==
    flushPendingSounds([m EXCEPT !.audioUnlocked = TRUE, !.unlocking = @ - 1,
                                 !.resolved = @ + 1])

unlockRejected(m) == [m EXCEPT !.unlocking = @ - 1]

RECURSIVE RunCallbacks(_, _)
\* main.js after the listener invocations of one update(ts), in order
RunCallbacks(m, cs) ==
    IF cs = <<>> THEN m
    ELSE LET c == Head(cs)
             n == IF c.cb = "navListener" THEN navListener(m, c.event)
                  ELSE IF c.cb = "selectListener" THEN selectListener(m, c.event)
                  ELSE m
         IN  RunCallbacks(n, Tail(cs))

\* ------------------------------------------------------ InputManager.update
\* update(ts), whole: both polls, the preference latch, select and its rumble,
\* the direction, the timer, and the listeners run by its emits.  Each \E binds
\* one value the code computes, in the order the code computes it.
updateRestartOnSource(t, hp, hk) ==
    \E kb \in {KeyboardUpdate(hk, kbPrev)} :
    \E gp \in {GamepadUpdate(hp, _prevButtons)} :
    \E prefer \in {PreferAfterPoll(preferGamepad, isConnected(gp.pad))} :
    \E aPressed \in {IF prefer THEN justPressed(gp.pad, gp._justPressed, "A") ELSE FALSE} :
    \E kSelect \in {kbJustPressed(kb.kbJust, "SELECT")} :
    \E sel \in {SelectEvents(prefer, aPressed, kSelect)} :
    \E selThrew \in {sel # <<>> /\ emitThrows(eventListeners, sel[1])} :
    \E rum \in {IF selThrew THEN <<>> ELSE SelectRumble(sel, gp.pad)} :
    \E thr \in {selThrew \/ \E i \in 1..Len(rum) : rum[i].result = "threw"} :
    \E d \in {ResolveDir(prefer, gp.pad, gp.axes, hk)} :
    \* an exception leaves update() before the navigation step
    \E nav \in {IF thr
                THEN [activeDir |-> _activeDir, nextRepeatAt |-> _nextRepeatAt,
                      events |-> <<>>]
                ELSE NavTimer(IF SourceOf(prefer, gp.pad, gp.axes, hk)
                                   = SourceOf(preferGamepad, pad, axes, hwKeys)
                                 THEN _activeDir ELSE None,
                              _nextRepeatAt, d, t)} :
    \E evs \in {EmissionOrder(sel, nav.events)} :
        /\ hwPad' = hp
        /\ hwKeys' = hk
        /\ kbPrev' = kb.kbPrev
        /\ kbJust' = kb.kbJust
        /\ pad' = gp.pad
        /\ _prevButtons' = gp._prevButtons
        /\ _justPressed' = gp._justPressed
        /\ axes' = gp.axes
        /\ preferGamepad' = prefer
        /\ _activeDir' = nav.activeDir
        /\ _nextRepeatAt' = nav.nextRepeatAt
        /\ ts' = t
        /\ events' = evs
        /\ calls' = DispatchAll(eventListeners, evs)
        /\ main' = RunCallbacks(main, DispatchAll(eventListeners, evs))
        /\ eventListeners' = eventListeners
        /\ rumbles' = rum
        /\ threw' = (thr \/ (nav.events # <<>> /\ emitThrows(eventListeners, nav.events[1])))
        /\ probe' = probe
        /\ adapterCalls' = AdapterCalls(prefer, sel, gp.pad, gp.axes, thr)
        /\ dir' = IF thr THEN dir ELSE d
        /\ runNav' = RunNavAfter(runNav, dir, d, nav.events, t)
        /\ before' = [activeDir |-> _activeDir, dir |-> dir,
                      due |-> Due(_activeDir, _nextRepeatAt, t),
                      prefer |-> preferGamepad,
                      src |-> SourceOf(preferGamepad, pad, axes, hwKeys),
                      connected |-> isConnected(pad)]
        /\ scn' = ScenarioAfter(scn, dir, d, t)

\* ------------------------------------------------------------------- update
\* InputManager.update(t) on the hardware snapshot (hp, hk) of the frame
updateLateSwitch(t, hp, hk) ==
    \E kb \in {KeyboardUpdate(hk, kbPrev)} :
    \E gp \in {GamepadUpdate(hp, _prevButtons)} :
    \E prefer \in {PreferAfterPoll(preferGamepad, isConnected(gp.pad))} :
    \E aPressed \in {IF preferGamepad THEN justPressed(gp.pad, gp._justPressed, "A") ELSE FALSE} :
    \E kSelect \in {kbJustPressed(kb.kbJust, "SELECT")} :
    \E sel \in {SelectEvents(preferGamepad, aPressed, kSelect)} :
    \E selThrew \in {sel # <<>> /\ emitThrows(eventListeners, sel[1])} :
    \E rum \in {IF selThrew THEN <<>> ELSE SelectRumble(sel, gp.pad)} :
    \E thr \in {selThrew \/ \E i \in 1..Len(rum) : rum[i].result = "threw"} :
    \E d \in {ResolveDir(preferGamepad, gp.pad, gp.axes, hk)} :
    \* an exception leaves update() before the navigation step
    \E nav \in {IF thr
                THEN [activeDir |-> _activeDir, nextRepeatAt |-> _nextRepeatAt,
                      events |-> <<>>]
                ELSE NavTimer(_activeDir, _nextRepeatAt, d, t)} :
    \E evs \in {EmissionOrder(sel, nav.events)} :
        /\ hwPad' = hp
        /\ hwKeys' = hk
        /\ kbPrev' = kb.kbPrev
        /\ kbJust' = kb.kbJust
        /\ pad' = gp.pad
        /\ _prevButtons' = gp._prevButtons
        /\ _justPressed' = gp._justPressed
        /\ axes' = gp.axes
        /\ preferGamepad' = prefer
        /\ _activeDir' = nav.activeDir
        /\ _nextRepeatAt' = nav.nextRepeatAt
        /\ ts' = t
        /\ events' = evs
        /\ calls' = DispatchAll(eventListeners, evs)
        /\ main' = RunCallbacks(main, DispatchAll(eventListeners, evs))
        /\ eventListeners' = eventListeners
        /\ rumbles' = rum
        /\ threw' = (thr \/ (nav.events # <<>> /\ emitThrows(eventListeners, nav.events[1])))
        /\ probe' = probe
        /\ adapterCalls' = AdapterCalls(prefer, sel, gp.pad, gp.axes, thr)
        /\ dir' = IF thr THEN dir ELSE d
        /\ runNav' = RunNavAfter(runNav, dir, d, nav.events, t)
        /\ before' = [activeDir |-> _activeDir, dir |-> dir,
                      due |-> Due(_activeDir, _nextRepeatAt, t),
                      prefer |-> preferGamepad,
                      src |-> SourceOf(preferGamepad, pad, axes, hwKeys),
                      connected |-> isConnected(pad)]
        /\ scn' = ScenarioAfter(scn, dir, d, t)

update(t, hp, hk) ==
    \E kb \in {KeyboardUpdate(hk, kbPrev)} :
    \E gp \in {GamepadUpdate(hp, _prevButtons)} :
    \E prefer \in {PreferAfterPoll(preferGamepad, isConnected(gp.pad))} :
    \E aPressed \in {IF prefer THEN justPressed(gp.pad, gp._justPressed, "A") ELSE FALSE} :
    \E kSelect \in {kbJustPressed(kb.kbJust, "SELECT")} :
    \E sel \in {SelectEvents(prefer, aPressed, kSelect)} :
    \E selThrew \in {sel # <<>> /\ emitThrows(eventListeners, sel[1])} :
    \E rum \in {IF selThrew THEN <<>> ELSE SelectRumble(sel, gp.pad)} :
    \E thr \in {selThrew \/ \E i \in 1..Len(rum) : rum[i].result = "threw"} :
    \E d \in {ResolveDir(prefer, gp.pad, gp.axes, hk)} :
    \* an exception leaves update() before the navigation step
    \E nav \in {IF thr
                THEN [activeDir |-> _activeDir, nextRepeatAt |-> _nextRepeatAt,
                      events |-> <<>>]
                ELSE NavTimer(_activeDir, _nextRepeatAt, d, t)} :
    \E evs \in {EmissionOrder(sel, nav.events)} :
        /\ hwPad' = hp
        /\ hwKeys' = hk
        /\ kbPrev' = kb.kbPrev
        /\ kbJust' = kb.kbJust
        /\ pad' = gp.pad
        /\ _prevButtons' = gp._prevButtons
        /\ _justPressed' = gp._justPressed
        /\ axes' = gp.axes
        /\ preferGamepad' = prefer
        /\ _activeDir' = nav.activeDir
        /\ _nextRepeatAt' = nav.nextRepeatAt
        /\ ts' = t
        /\ events' = evs
        /\ calls' = DispatchAll(eventListeners, evs)
        /\ main' = RunCallbacks(main, DispatchAll(eventListeners, evs))
        /\ eventListeners' = eventListeners
        /\ rumbles' = rum
        /\ threw' = (thr \/ (nav.events # <<>> /\ emitThrows(eventListeners, nav.events[1])))
        /\ probe' = probe
        /\ adapterCalls' = AdapterCalls(prefer, sel, gp.pad, gp.axes, thr)
        /\ dir' = IF thr THEN dir ELSE d
        /\ runNav' = RunNavAfter(runNav, dir, d, nav.events, t)
        /\ before' = [activeDir |-> _activeDir, dir |-> dir,
                      due |-> Due(_activeDir, _nextRepeatAt, t),
                      prefer |-> preferGamepad,
                      src |-> SourceOf(preferGamepad, pad, axes, hwKeys),
                      connected |-> isConnected(pad)]
        /\ scn' = ScenarioAfter(scn, dir, d, t)

\* tick(ts): one callback of requestAnimationFrame; the next one is requested
\* after update(ts) returns
tick(t, hp, hk) ==
    /\ rafQueue > 0
    /\ update(t, hp, hk)
    /\ rafQueue' = IF threw' THEN rafQueue - 1 ELSE rafQueue
    /\ legacy' = legacy

\* ------------------------------------------------------------- environment
Toggle(s, x) == IF x \in s THEN s \ {x} ELSE s \cup {x}

\* the pad as the next poll may find it: unchanged, or one control changed
PadEdits(p, buttons, sticks) ==
    {p}
    \cup {[p EXCEPT !.connected = ~p.connected]}
    \cup {[p EXCEPT !.buttons = Toggle(p.buttons, b)] : b \in buttons}
    \cup {[p EXCEPT !.axes = s] : s \in sticks}

\* the keyboard as the next poll may find it: unchanged, or one control changed
KeyEdits(k, arrows, keys) ==
    {k}
    \cup {[k EXCEPT !.arrow = a] : a \in arrows}
    \cup {[k EXCEPT !.keys = Toggle(k.keys, x)] : x \in keys}

Init ==
    /\ hwPad = NullPad
    /\ hwKeys = [arrow |-> None, keys |-> {}]
    /\ pad = NullPad
    /\ _prevButtons = {}
    /\ _justPressed = {}
    /\ axes = <<0, 0>>
    /\ kbPrev = {}
    /\ kbJust = {}
    /\ preferGamepad = FALSE
    /\ _activeDir = None
    /\ _nextRepeatAt = 0
    /\ ts = 0
    /\ events = <<>>
    /\ dir = None
    /\ runNav = NoNav
    /\ before = [activeDir |-> None, dir |-> None, due |-> "idle", prefer |-> FALSE,
                src |-> None, connected |-> FALSE]
    /\ scn = 0
    /\ eventListeners = NoListeners
    /\ calls = <<>>
    /\ rumbles = <<>>
    /\ threw = FALSE
    /\ probe = NoProbe
    /\ adapterCalls = <<>>
    /\ rafQueue = 1
    /\ legacy = [currentDirection |-> None, lastInputTime |-> 0, isFirstInput |-> TRUE,
                 events |-> <<>>]
    /\ main = [audioUnlocked |-> FALSE, focusRegion |-> "nav", pendingSounds |-> <<>>,
               unlocking |-> 0, resolved |-> 0, requested |-> <<>>, played |-> <<>>,
               handled |-> NoHandled]

\* a frame of the application: connection, A, SELECT and a few direction sources
\* may have changed since the last one
Update ==
    \E d \in CoarseDeltas, hp \in PadEdits(hwPad, CoordButtons, CoordSticks),
       hk \in KeyEdits(hwKeys, CoordArrows, KeyNames) :
        /\ ts + d <= MaxTs
        /\ tick(ts + d, hp, hk)

Next == Update

Spec == Init /\ [][Next]_vars

\* a frame in which any direction source may have changed: D-pad, stick, arrows
ResolveUpdate ==
    \E d \in CoarseDeltas,
       hw \in (PadEdits(hwPad, DpadButtons, ResolveSticks) \X {hwKeys})
               \cup ({hwPad} \X KeyEdits(hwKeys, Dirs \cup {None}, {})) :
        /\ ts + d <= MaxTs
        /\ tick(ts + d, hw[1], hw[2])

ResolveNext == ResolveUpdate

ResolveSpec == Init /\ [][ResolveNext]_vars

\* a frame in which only the keyboard arrows may have changed, on a fine clock
TimerUpdate ==
    \E d \in FineDeltas, hk \in KeyEdits(hwKeys, Dirs \cup {None}, {}) :
        /\ ts + d <= TimerMaxTs
        /\ tick(ts + d, hwPad, hk)

TimerNext == TimerUpdate

TimerSpec == Init /\ [][TimerNext]_vars

\* stick coordinates in hundredths around the deadzone edge and at full throw
AxisSamples == {-100, -90, -33, -32, -31, -1, 0, 1, 31, 32, 33, 90, 100}

\* a direct call of the stick resolver on an arbitrary vector
AxesProbe ==
    /\ \E x \in AxisSamples, y \in AxisSamples :
            probe' = [call |-> "_getDominantDirFromAxes", x |-> x, y |-> y,
                      dir |-> _getDominantDirFromAxes(x, y)]
    /\ UNCHANGED <<hwPad, hwKeys, pad, _prevButtons, _justPressed, axes, kbPrev,
                   kbJust, preferGamepad, _activeDir, _nextRepeatAt, ts, events,
                   dir, runNav, before, scn, eventListeners, calls, rumbles, threw,
                   adapterCalls, rafQueue, main, legacy>>

AxesNext == AxesProbe

AxesSpec == Init /\ [][AxesNext]_vars

\* event types and callbacks a client may register; "back" is never emitted
ListenerTypes == {"nav", "select", "back"}
Callbacks == {"f", "g"}
MaxListeners == 2

RECURSIVE Registrations(_, _)
\* number of registrations held for the types in S
Registrations(ls, S) ==
    IF S = {} THEN 0
    ELSE LET type == CHOOSE x \in S : TRUE
         IN  Len(ls[type]) + Registrations(ls, S \ {type})

\* a client registers a callback between two frames
On ==
    /\ Registrations(eventListeners, DOMAIN eventListeners) < MaxListeners
    /\ \E type \in ListenerTypes, cb \in Callbacks :
            eventListeners' = on(eventListeners, type, cb)
    /\ UNCHANGED <<hwPad, hwKeys, pad, _prevButtons, _justPressed, axes, kbPrev,
                   kbJust, preferGamepad, _activeDir, _nextRepeatAt, ts, events,
                   dir, runNav, before, scn, calls, rumbles, threw, probe,
                   adapterCalls, rafQueue, main, legacy>>

\* a frame in which the pad's connection or button A, or a key, may have changed
ListenerUpdate ==
    \E d \in CoarseDeltas,
       hw \in (PadEdits(hwPad, {"A"}, {}) \X {hwKeys})
               \cup ({hwPad} \X KeyEdits(hwKeys, {None, "right"}, KeyNames)) :
        /\ ts + d <= MaxTs
        /\ tick(ts + d, hw[1], hw[2])

ListenerNext == On \/ ListenerUpdate

ListenerSpec == Init /\ [][ListenerNext]_vars

Actuators == {None, "ok", "fails"}

\* the pad as the next poll may find it, its vibration actuator included
RumblePadEdits(p) ==
    PadEdits(p, {"A"}, {}) \cup {[p EXCEPT !.actuator = a] : a \in Actuators}

\* a frame in which the pad, its actuator, or a key may have changed
RumbleUpdate ==
    \E d \in CoarseDeltas, hp \in RumblePadEdits(hwPad),
       hk \in KeyEdits(hwKeys, {None, "right"}, KeyNames) :
        /\ ts + d <= MaxTs
        /\ tick(ts + d, hp, hk)

\* a client calls inputManager.rumble(intensity, duration) between two frames;
\* the defaults apply when the arguments are left out
Rumble ==
    /\ \E a \in {<<50, 200>>, <<40, 100>>, <<100, 400>>} :
            probe' = [call |-> "rumble", pad |-> pad, out |-> InputRumble(pad, a[1], a[2])]
    /\ UNCHANGED <<hwPad, hwKeys, pad, _prevButtons, _justPressed, axes, kbPrev,
                   kbJust, preferGamepad, _activeDir, _nextRepeatAt, ts, events,
                   dir, runNav, before, scn, eventListeners, calls, rumbles, threw,
                   adapterCalls, rafQueue, main, legacy>>

RumbleNext == RumbleUpdate \/ Rumble

RumbleSpec == Init /\ [][RumbleNext]_vars

\* stick vectors below and at the device deadzone (15), and with NaN axes
StickSamples == {<<0, 0>>, <<10, 0>>, <<10, 10>>, <<15, 0>>, <<0, -90>>,
                 <<NaN, 0>>, <<NaN, 90>>, <<90, NaN>>, <<NaN, NaN>>}

\* a frame in which the pad's connection, D-pad left, the stick or an arrow
\* may have changed
StickUpdate ==
    \E d \in CoarseDeltas,
       hw \in (PadEdits(hwPad, {"LEFT"}, StickSamples) \X {hwKeys})
               \cup ({hwPad} \X KeyEdits(hwKeys, {None, "up"}, {})) :
        /\ ts + d <= MaxTs
        /\ tick(ts + d, hw[1], hw[2])

StickNext == StickUpdate

StickSpec == Init /\ [][StickNext]_vars

\* analog readings of a trigger around the activation threshold
TriggerValues == {0, 5, 10, 11, 50}

\* the pad as the next poll may find it: connection, a trigger's pressed flag
\* or a trigger's analog value changed; the browser sets the pressed flag only
\* for a value beyond the threshold
TriggerPadEdits(p) ==
    {q \in PadEdits(p, {"LT"}, {})
            \cup {[p EXCEPT !.value["LT"] = v] : v \in TriggerValues}
            \cup {[p EXCEPT !.value["RT"] = v] : v \in {0, 10, 50}} :
        \A t \in Triggers : t \in q.buttons => q.value[t] > triggerThreshold}

TriggerUpdate ==
    \E d \in CoarseDeltas, hp \in TriggerPadEdits(hwPad) :
        /\ ts + d <= MaxTs
        /\ tick(ts + d, hp, hwKeys)

TriggerNext == TriggerUpdate

TriggerSpec == Init /\ [][TriggerNext]_vars

\* callbacks a client may register in LoopSpec: one that returns, one that throws
LoopCallbacks == {"f", Thrower}

\* a client registers a callback for nav or select between two frames
LoopOn ==
    /\ Registrations(eventListeners, DOMAIN eventListeners) < MaxListeners
    /\ \E type \in {"nav", "select"}, cb \in LoopCallbacks :
            eventListeners' = on(eventListeners, type, cb)
    /\ UNCHANGED <<hwPad, hwKeys, pad, _prevButtons, _justPressed, axes, kbPrev,
                   kbJust, preferGamepad, _activeDir, _nextRepeatAt, ts, events,
                   dir, runNav, before, scn, calls, rumbles, threw, probe,
                   adapterCalls, rafQueue, main, legacy>>

\* the browser runs a scheduled tick; an arrow or SELECT may have changed
LoopTick ==
    \E d \in CoarseDeltas, hk \in KeyEdits(hwKeys, {None, "right"}, KeyNames) :
        /\ ts + d <= MaxTs
        /\ tick(ts + d, hwPad, hk)

LoopNext == LoopOn \/ LoopTick

LoopSpec == Init /\ [][LoopNext]_vars

\* init(): main.js subscribes its nav and select listeners
MainInit ==
    /\ eventListeners = NoListeners
    /\ eventListeners' = on(on(eventListeners, "nav", "navListener"),
                            "select", "selectListener")
    /\ UNCHANGED <<hwPad, hwKeys, pad, _prevButtons, _justPressed, axes, kbPrev,
                   kbJust, preferGamepad, _activeDir, _nextRepeatAt, ts, events,
                   dir, runNav, before, scn, calls, rumbles, threw, probe,
                   adapterCalls, rafQueue, main, legacy>>

\* a frame in which an arrow key or SELECT may have changed
AudioTick ==
    \E d \in CoarseDeltas,
       hk \in KeyEdits(hwKeys, Dirs \cup {None}, KeyNames) :
        /\ ts + d <= MaxTs
        /\ eventListeners # NoListeners
        /\ Len(main.requested) < MaxSounds
        /\ main.unlocking < MaxUnlocks
        /\ tick(ts + d, hwPad, hk)

\* a user gesture or the gamepad poll calls attemptUnlockAudio()
Gesture ==
    /\ main.unlocking < MaxUnlocks
    /\ main' = attemptUnlockAudio(main)
    /\ UNCHANGED <<hwPad, hwKeys, pad, _prevButtons, _justPressed, axes, kbPrev,
                   kbJust, preferGamepad, _activeDir, _nextRepeatAt, ts, events,
                   dir, runNav, before, scn, eventListeners, calls, rumbles, threw,
                   probe, adapterCalls, rafQueue, legacy>>

\* the primed plays of one attempt in flight have all resolved
UnlockResolved ==
    /\ main.unlocking > 0
    /\ main' = unlockResolved(main)
    /\ UNCHANGED <<hwPad, hwKeys, pad, _prevButtons, _justPressed, axes, kbPrev,
                   kbJust, preferGamepad, _activeDir, _nextRepeatAt, ts, events,
                   dir, runNav, before, scn, eventListeners, calls, rumbles, threw,
                   probe, adapterCalls, rafQueue, legacy>>

\* a primed play of one attempt in flight was rejected
UnlockRejected ==
    /\ main.unlocking > 0
    /\ main' = unlockRejected(main)
    /\ UNCHANGED <<hwPad, hwKeys, pad, _prevButtons, _justPressed, axes, kbPrev,
                   kbJust, preferGamepad, _activeDir, _nextRepeatAt, ts, events,
                   dir, runNav, before, scn, eventListeners, calls, rumbles, threw,
                   probe, adapterCalls, rafQueue, legacy>>

AudioNext == MainInit \/ AudioTick \/ Gesture \/ UnlockResolved \/ UnlockRejected

AudioSpec == Init /\ [][AudioNext]_vars

\* a frame in which the pad's connection or button A, or a key, may have changed
PreferenceUpdate ==
    \E d \in CoarseDeltas, hp \in PadEdits(hwPad, {"A"}, {}),
       hk \in KeyEdits(hwKeys, {None, "right"}, KeyNames) :
        /\ ts + d <= MaxTs
        /\ tick(ts + d, hp, hk)

\* a client calls inputManager.handleInputPreference() between two frames
HandleInputPreference ==
    LET r == handleInputPreference(preferGamepad, pad, hwKeys)
    IN  /\ preferGamepad' = r.preferGamepad
        /\ probe' = [call |-> "handleInputPreference", prefer |-> preferGamepad,
                      held |-> hasKeyboardInput(hwKeys), connected |-> isConnected(pad),
                      after |-> r.preferGamepad, raised |-> r.raised]
        /\ UNCHANGED <<hwPad, hwKeys, pad, _prevButtons, _justPressed, axes, kbPrev,
                       kbJust, _activeDir, _nextRepeatAt, ts, events, dir, runNav,
                       before, scn, eventListeners, calls, rumbles, threw,
                       adapterCalls, rafQueue, main, legacy>>

PreferenceNext == PreferenceUpdate \/ HandleInputPreference

PreferenceSpec == Init /\ [][PreferenceNext]_vars

\* a frame on the fine clock in which both timers are fed: update(ts) runs its
\* own, and processNavigationInputs() gets the same direction and timestamp
LegacyFrame ==
    \E d \in FineDeltas, hk \in KeyEdits(hwKeys, {None, "up", "right"}, {}) :
        /\ ts + d <= TimerMaxTs
        /\ update(ts + d, hwPad, hk)
        /\ rafQueue' = rafQueue
        /\ legacy' = processNavigationInputs(legacy, dir', ts + d)

LegacyNext == LegacyFrame

LegacySpec == Init /\ [][LegacyNext]_vars

\* clock advances of the frames of LiveSpec: none, or 100 ms
LiveDeltas == {0, 100}

\* a frame at the same timestamp as the last one; the held arrow may change
Hold ==
    \E hk \in KeyEdits(hwKeys, {None, "left", "right"}, {}) : tick(ts, hwPad, hk)

\* a frame at a later timestamp; the held arrow may change
Advance ==
    \E d \in LiveDeltas \ {0}, hk \in KeyEdits(hwKeys, {None, "left", "right"}, {}) :
        /\ ts + d <= LiveMaxTs
        /\ tick(ts + d, hwPad, hk)

LiveNext == Hold \/ Advance

\* the frame loop keeps calling update with growing timestamps
LiveSpec == Init /\ [][LiveNext]_vars /\ WF_vars(Advance)

\* =================================================================== claims
\* whether the pad shows button A pressed at a poll (an absent pad shows nothing)
PolledA(hw) == hw.connected /\ "A" \in hw.buttons

\* C1: each maximal run of one resolved non-none direction emits exactly one
\* edge, on its first frame; every other nav event of the run is a repeat; the
\* first repeat comes at least _firstDelay after the edge and two consecutive
\* repeats are at least _repeatDelay apart.
C1_EdgeThenSpacedRepeats ==
    [][LET navs == NavsOf(events')
       IN  /\ (dir' # None /\ dir' # dir) => navs = <<NavEvent(dir', "edge")>>
           /\ (dir' # None /\ dir' = dir) =>
                \A i \in 1..Len(navs) : navs[i] = NavEvent(dir', "repeat")
           /\ dir' = None => navs = <<>>
           /\ \A i \in 1..Len(navs) : navs[i].mode = "repeat" =>
                /\ runNav.mode \in {"edge", "repeat"}
                /\ runNav.mode = "edge" => ts' - runNav.ts >= _firstDelay
                /\ runNav.mode = "repeat" => ts' - runNav.ts >= _repeatDelay
      ]_vars

\* a run that has emitted its edge, a first repeat and, in this frame, a second repeat
C1_Witness ==
    /\ runNav.n >= 3
    /\ runNav.mode = "repeat"
    /\ runNav.ts = ts
    /\ NavsOf(events) = <<NavEvent(dir, "repeat")>>

\* C2: a frame resolving a non-none direction other than the timer's active
\* direction emits exactly one nav edge for it and leaves the timer at
\* (that direction, ts + _firstDelay), with no repeat and whatever delay remained.
C2_EdgeOnNewDirection ==
    (dir # None /\ dir # before.activeDir) =>
        /\ NavsOf(events) = <<NavEvent(dir, "edge")>>
        /\ _activeDir = dir
        /\ _nextRepeatAt = ts + _firstDelay

\* a direction replaced another one whose repeat deadline had not been reached
C2_Witness ==
    /\ dir # None
    /\ before.activeDir \in Dirs \ {dir}
    /\ before.due = "early"
    /\ NavsOf(events) = <<NavEvent(dir, "edge")>>
    /\ ts > 0

ScenarioModes == <<"edge", None, "repeat", None, "repeat">>
ScenarioDeadline == ScenarioTs[3] + _repeatDelay

\* C3: a frame resolving the timer's active direction emits a repeat exactly
\* when ts >= _nextRepeatAt, the deadline then becoming ts + _repeatDelay;
\* before the deadline nothing is emitted and the timer is unchanged.  Holding
\* right at the timestamps of ScenarioTs gives edge, nothing, repeat (deadline
\* 310), nothing, repeat.
C3_RepeatAtDeadline ==
    [][LET navs == NavsOf(events')
       IN  /\ (dir' # None /\ dir' = _activeDir) =>
                IF ts' >= _nextRepeatAt
                THEN /\ navs = <<NavEvent(dir', "repeat")>>
                     /\ _activeDir' = _activeDir
                     /\ _nextRepeatAt' = ts' + _repeatDelay
                ELSE /\ navs = <<>>
                     /\ _activeDir' = _activeDir
                     /\ _nextRepeatAt' = _nextRepeatAt
           /\ scn' \in 1..Len(ScenarioTs) =>
                navs = IF ScenarioModes[scn'] = None THEN <<>>
                       ELSE <<NavEvent("right", ScenarioModes[scn'])>>
           /\ scn' = 3 => _nextRepeatAt' = ScenarioDeadline
      ]_vars

\* right has been held through all five frames of the scenario
C3_Witness ==
    /\ scn = Len(ScenarioTs)
    /\ ts = ScenarioTs[Len(ScenarioTs)]
    /\ NavsOf(events) = <<NavEvent("right", "repeat")>>

\* C4: the first frame resolving a direction after a frame that resolved none
\* emits a nav edge, never a repeat.
C4_EdgeAfterNone ==
    (before.dir = None /\ dir # None) => NavsOf(events) = <<NavEvent(dir, "edge")>>

\* a direction returns after a neutral frame, later than the first frame
C4_Witness ==
    /\ before.dir = None
    /\ dir # None
    /\ ts > 0
    /\ runNav = [mode |-> "edge", ts |-> ts, n |-> 1]

\* C5: a frame resolving none emits no nav event and leaves the timer at
\* (none, 0).
C5_NeutralResets ==
    dir = None =>
        /\ NavsOf(events) = <<>>
        /\ _activeDir = None
        /\ _nextRepeatAt = 0

\* a neutral frame ended a run whose repeat deadline was still ahead
C5_Witness ==
    /\ dir = None
    /\ before.activeDir # None
    /\ before.due = "early"
    /\ ts > 0

\* C6: one update emits at most one nav event and at most one select event.
C6_AtMostOneEach ==
    /\ Len(NavsOf(events)) <= 1
    /\ Len(SelectsOf(events)) <= 1

\* A and SELECT both went down in a frame that came long after the repeat deadline
C6_Witness ==
    /\ "A" \in _justPressed
    /\ "SELECT" \in kbJust
    /\ before.due = "late"
    /\ Len(NavsOf(events)) = 1
    /\ Len(SelectsOf(events)) = 1

\* C7: with the gamepad preferred, a frame emits select exactly when A is
\* pressed at its poll and was not pressed at the poll before.
C7_SelectIffAEdge ==
    [][preferGamepad' =>
         ((SelectsOf(events') # <<>>) <=> (PolledA(hwPad') /\ ~PolledA(hwPad)))
      ]_vars

\* C8: a select event says gamepad only if A was just pressed in the frame and
\* keyboard only if SELECT was just pressed in the frame.
C8_SourceIsProducer ==
    [][\A i \in 1..Len(SelectsOf(events')) :
         LET e == SelectsOf(events')[i]
         IN  /\ e.source = "gamepad" => (PolledA(hwPad') /\ ~PolledA(hwPad))
             /\ e.source = "keyboard" =>
                    ("SELECT" \in hwKeys'.keys /\ "SELECT" \notin hwKeys.keys)
      ]_vars

\* C9: with the gamepad preferred a SELECT press without an A press emits no
\* select; with the keyboard preferred an A press without a SELECT press emits
\* no select.
C9_AuthoritativeOnly ==
    [][LET aJust == PolledA(hwPad') /\ ~PolledA(hwPad)
           kJust == "SELECT" \in hwKeys'.keys /\ "SELECT" \notin hwKeys.keys
       IN  /\ (preferGamepad' /\ kJust /\ ~aJust) => SelectsOf(events') = <<>>
           /\ (~preferGamepad' /\ aJust /\ ~kJust) => SelectsOf(events') = <<>>
      ]_vars

DpadPriority == <<"left", "right", "up", "down">>
ButtonOf(d) == CASE d = "left" -> "LEFT" [] d = "right" -> "RIGHT"
                 [] d = "up" -> "UP" [] d = "down" -> "DOWN"

\* C10: with the gamepad preferred and connected and a D-pad direction down,
\* the frame resolves the first down direction in the order left, right, up,
\* down, whatever the stick and the keyboard arrows show.
C10_DpadFirst ==
    (preferGamepad /\ hwPad.connected /\ hwPad.buttons \cap DpadButtons # {}) =>
        \E i \in 1..Len(DpadPriority) :
            /\ ButtonOf(DpadPriority[i]) \in hwPad.buttons
            /\ \A j \in 1..(i - 1) : ButtonOf(DpadPriority[j]) \notin hwPad.buttons
            /\ dir = DpadPriority[i]

\* D-pad left against a stick pushed right and a keyboard arrow held
C10_Witness ==
    /\ hwPad.connected
    /\ hwPad.buttons \cap DpadButtons = {"LEFT"}
    /\ hwPad.axes = <<90, 0>>
    /\ hwKeys.arrow = "up"
    /\ dir = "left"

Max(a, b) == IF a >= b THEN a ELSE b

\* C11: the stick resolver returns none exactly when max(|x|,|y|) < 0.32; so
\* every vector of magnitude below 0.32 resolves to none and a vector with an
\* axis at 0.32 or beyond resolves to a direction.
C11_DeadzoneExact ==
    probe.call = "_getDominantDirFromAxes" =>
    /\ probe.dir = None <=> Max(Abs(probe.x), Abs(probe.y)) < 32
    /\ probe.x * probe.x + probe.y * probe.y < 32 * 32 => probe.dir = None
    /\ (Abs(probe.x) >= 32 \/ Abs(probe.y) >= 32) => probe.dir \in Dirs

\* an axis exactly on the deadzone edge resolves to a direction
C11_Witness == probe.call # None /\ probe.x = 32 /\ probe.y = 0 /\ probe.dir = "right"

\* C12: outside the deadzone the resolver follows the dominant axis: right or
\* left by the sign of x when |x| >= |y|, down or up by the sign of y when
\* |y| > |x|; a tie resolves horizontally.
C12_DominantAxis ==
    (probe.call = "_getDominantDirFromAxes" /\ Max(Abs(probe.x), Abs(probe.y)) >= 32) =>
        /\ (Abs(probe.x) >= Abs(probe.y) /\ probe.x > 0) => probe.dir = "right"
        /\ (Abs(probe.x) >= Abs(probe.y) /\ probe.x < 0) => probe.dir = "left"
        /\ (Abs(probe.y) > Abs(probe.x) /\ probe.y > 0) => probe.dir = "down"
        /\ (Abs(probe.y) > Abs(probe.x) /\ probe.y < 0) => probe.dir = "up"
        /\ Abs(probe.x) = Abs(probe.y) => probe.dir \in {"left", "right"}

\* a tie of a leftward and a downward throw resolves to left
C12_Witness == probe.call # None /\ probe.x = -90 /\ probe.y = 90 /\ probe.dir = "left"

\* the direction a polled pad shows by itself: D-pad first, then the stick
PadShows(hw) ==
    IF ~hw.connected THEN None
    ELSE IF "LEFT" \in hw.buttons THEN "left"
    ELSE IF "RIGHT" \in hw.buttons THEN "right"
    ELSE IF "UP" \in hw.buttons THEN "up"
    ELSE IF "DOWN" \in hw.buttons THEN "down"
    ELSE IF Max(Abs(hw.axes[1]), Abs(hw.axes[2])) < 32 THEN None
    ELSE IF Abs(hw.axes[1]) >= Abs(hw.axes[2])
         THEN (IF hw.axes[1] > 0 THEN "right" ELSE "left")
    ELSE (IF hw.axes[2] > 0 THEN "down" ELSE "up")

\* C13: the keyboard arrows decide the direction of a frame only when the
\* gamepad is not preferred or shows no direction (no D-pad button down, stick
\* inside the deadzone); when the preferred gamepad shows a direction, that
\* direction is resolved whatever arrows are held.
C13_ArrowsOnlyAsFallback ==
    IF preferGamepad /\ PadShows(hwPad) # None
    THEN dir = PadShows(hwPad)
    ELSE dir = hwKeys.arrow

\* the stick pushed right wins over a held up arrow
C13_Witness ==
    /\ preferGamepad
    /\ hwPad.connected
    /\ hwPad.buttons = {}
    /\ hwPad.axes = <<90, 0>>
    /\ hwKeys.arrow = "up"
    /\ dir = "right"

\* C14: the device preference latches: an update that polls a connected
\* gamepad leaves preferGamepad true, and no update turns it back to false,
\* whether the gamepad is still connected or the keyboard is in use.
C14_PreferenceLatches ==
    [][(hwPad'.connected \/ preferGamepad) => preferGamepad']_vars

\* gamepad preferred, now disconnected, keyboard arrow held and resolved
C14_Witness ==
    /\ preferGamepad
    /\ before.prefer
    /\ ~hwPad.connected
    /\ hwKeys.arrow = "up"
    /\ dir = "up"

\* C15: the first update that polls a connected gamepad while the keyboard
\* was preferred switches the preference before it evaluates select and
\* navigation: button A held in that frame gives a gamepad select, and a
\* D-pad or stick direction shown in that frame is the resolved direction.
C15_SwitchBeforeEvaluation ==
    (~before.prefer /\ hwPad.connected) =>
        /\ preferGamepad
        /\ "A" \in hwPad.buttons => SelectsOf(events) = <<SelectEvent("gamepad")>>
        /\ PadShows(hwPad) # None =>
              /\ dir = PadShows(hwPad)
              /\ NavsOf(events) = <<NavEvent(dir, "edge")>> \/ before.dir = dir

\* the connecting frame already has A down and the D-pad held left, against
\* an arrow that was being resolved until then
C15_Witness ==
    /\ ~before.prefer
    /\ hwPad.connected
    /\ {"A", "LEFT"} \subseteq hwPad.buttons
    /\ before.dir = "up"
    /\ events = <<SelectEvent("gamepad"), NavEvent("left", "edge")>>

\* the callbacks registered for a type, in registration order
Registered(ls, type) == IF type \in DOMAIN ls THEN ls[type] ELSE <<>>

\* the callbacks invoked with event e among the invocations cs, in order
InvokedWith(cs, e) ==
    LET sub == SelectSeq(cs, LAMBDA c : c.event = e)
    IN  [i \in 1..Len(sub) |-> sub[i].cb]

\* C16: within the update that emits an event, the callbacks registered for
\* the event's type are each invoked once with it, in registration order;
\* callbacks of other types are not invoked, and an event whose type has no
\* registration invokes nothing.
C16_ListenersInOrder ==
    [][eventListeners' = eventListeners =>
        /\ \A i \in 1..Len(calls') :
              \E k \in 1..Len(events') : calls'[i].event = events'[k]
        /\ \A k \in 1..Len(events') :
              InvokedWith(calls', events'[k]) =
                  Registered(eventListeners, events'[k].type)
      ]_vars

\* g was registered for nav before f, and a nav event reached both in that order
C16_Witness ==
    /\ Registered(eventListeners, "nav") = <<"g", "f">>
    /\ Len(events) = 1
    /\ IsNav(events[1])
    /\ calls = <<[cb |-> "g", event |-> events[1]], [cb |-> "f", event |-> events[1]]>>

\* C17: in an update that emits both a select and a nav event, every select
\* listener runs before any nav listener, whatever the device, the direction
\* and the timer state.
C17_SelectBeforeNav ==
    /\ \A i, j \in 1..Len(events) :
          (IsSelect(events[i]) /\ IsNav(events[j])) => i < j
    /\ \A i, j \in 1..Len(calls) :
          (IsSelect(calls[i].event) /\ IsNav(calls[j].event)) => i < j

\* one frame emitted a select and a repeat, and a listener of each ran
C17_Witness ==
    /\ Len(calls) = 2
    /\ IsSelect(calls[1].event)
    /\ calls[2].event = NavEvent("right", "repeat")

\* C18: a frame with a gamepad select requests exactly one rumble, of
\* intensity 0.4 and duration 100 ms; update does not wait for it, and whether
\* the effect plays, fails or has no actuator, update does not throw and its
\* navigation step runs in the same frame.
C18_SelectRumblesOnce ==
    SelectsOf(events) = <<SelectEvent("gamepad")>> =>
        /\ Len(rumbles) = 1
        /\ rumbles[1].intensity = 40
        /\ rumbles[1].duration = 100
        /\ rumbles[1].result = "resolved"
        /\ (hwPad.connected /\ hwPad.actuator # None) =>
              rumbles[1].effects = <<[strong |-> 40, weak |-> 28, duration |-> 100]>>
        /\ ~threw
        /\ (dir # None /\ dir # before.dir) => NavsOf(events) = <<NavEvent(dir, "edge")>>
        /\ dir = None => _activeDir = None

\* button A pressed on a pad whose effect fails, in the frame an arrow goes down
C18_Witness ==
    /\ PolledA(hwPad)
    /\ hwPad.actuator = "fails"
    /\ events = <<SelectEvent("gamepad"), NavEvent("right", "edge")>>
    /\ Len(rumbles) = 1
    /\ rumbles[1].effects # <<>>
    /\ ~threw

\* C19: rumble(intensity, duration) always resolves: without a connected pad
\* or without a vibration actuator it asks no effect of the hardware, and a
\* failing effect is swallowed.
C19_RumbleNeverFails ==
    probe.call = "rumble" =>
        /\ probe.out.result = "resolved"
        /\ (~probe.pad.connected \/ probe.pad.actuator = None) <=> probe.out.effects = <<>>

\* the effect was asked of an actuator that fails, and the call still resolved
C19_Witness ==
    /\ probe.call = "rumble"
    /\ probe.pad.connected
    /\ probe.pad.actuator = "fails"
    /\ Len(probe.out.effects) = 1
    /\ probe.out.result = "resolved"

\* names a client may pass to a query: a face button, a D-pad button, a
\* trigger, a stick, and a name no device maps
QueryNames == {"A", "LEFT", "LT", "RIGHT_STICK", "NOPE"}

\* C20: in every state, for every name, each pass-through query of
\* InputManager returns a value and raises no exception.
C20_QueriesNeverRaise ==
    \A q \in Queries, name \in QueryNames : ~Query(q, name).raised

\* an axis value with NaN replaced by 0, and a pad with its axes so replaced
Zeroed(v) == IF v = NaN THEN 0 ELSE v
ZeroedPad(hw) == [hw EXCEPT !.axes = <<Zeroed(hw.axes[1]), Zeroed(hw.axes[2])>>]

\* C21: a NaN on a left-stick axis reads as 0 from getStick, and the frame
\* resolves one of the four directions or none: the direction it resolves
\* with the NaN axis replaced by 0.
C21_NaNAxisIsZero ==
    /\ pad.connected =>
          getStick(pad, axes, "LEFT") = <<Zeroed(hwPad.axes[1]), Zeroed(hwPad.axes[2])>>
    /\ dir \in Dirs \cup {None}
    /\ dir = IF preferGamepad /\ PadShows(ZeroedPad(hwPad)) # None
             THEN PadShows(ZeroedPad(hwPad))
             ELSE hwKeys.arrow

\* x pushed right with NaN on y resolves right, against a held arrow
C21_Witness ==
    /\ hwPad.connected
    /\ hwPad.axes = <<90, NaN>>
    /\ hwPad.buttons = {}
    /\ hwKeys.arrow = "up"
    /\ dir = "right"

\* whether a poll finds the named button down (an absent pad shows nothing)
Down(hw, name) == hw.connected /\ name \in hw.buttons

\* C22: for every logical button name of the gamepad adapter, justPressed is
\* true in a frame exactly when the button is down at that frame's poll and
\* was not down at the preceding poll, and justReleased exactly when it was
\* down at the preceding poll and is not down now.
C22_EdgeQueries ==
    [][\A name \in BUTTONS :
          /\ justPressed(pad', _justPressed', name) <=>
                (Down(hwPad', name) /\ ~Down(hwPad, name))
          /\ "justReleased" \in GamepadMethods
      ]_vars

\* whether a poll finds the named trigger at or beyond the activation threshold
TriggerDown(hw, t) == hw.connected /\ hw.value[t] >= 10

\* C23: the gamepad adapter reports LT and RT as down if and only if the
\* analog value is >= 0.1, the value 0.1 included, in getPressedButtons and in
\* the edge query alike.
C23_TriggerThreshold ==
    [][\A t \in Triggers :
          /\ t \in getPressedButtons(pad') <=> TriggerDown(hwPad', t)
          /\ justPressed(pad', _justPressed', t) <=>
                (TriggerDown(hwPad', t) /\ ~TriggerDown(hwPad, t))
      ]_vars

\* whether the raw left stick of a polled pad lies inside the device deadzone
\* of 0.15 (squared magnitudes, hundredths)
InsideDeviceDeadzone(hw) ==
    LET x == Zeroed(hw.axes[1])
        y == Zeroed(hw.axes[2])
    IN  x * x + y * y < 15 * 15

\* C24: whenever the raw stick magnitude is below 0.15 the gamepad adapter's
\* getStick reports exactly (0, 0), and the frame's navigation, working on
\* that vector, takes no direction from the stick.
C24_DeviceDeadzone ==
    (pad.connected /\ InsideDeviceDeadzone(hwPad)) =>
        /\ getStick(pad, axes, "LEFT") = <<0, 0>>
        /\ hwPad.buttons = {} => dir = hwKeys.arrow

\* C25: getActiveInputMethod() is gamepad exactly when the preference is
\* gamepad and the gamepad is connected, keyboard otherwise; every
\* pass-through query goes to the device it names.
C25_QueriesFollowActiveDevice ==
    /\ getActiveInputMethod(preferGamepad, pad) =
          (IF preferGamepad /\ hwPad.connected THEN "gamepad" ELSE "keyboard")
    /\ \A q \in Queries, name \in QueryNames :
          Query(q, name).from = getActiveInputMethod(preferGamepad, pad)

\* preferred but disconnected: the keyboard is active and answers the queries
C25_Witness ==
    /\ preferGamepad
    /\ ~hwPad.connected
    /\ getActiveInputMethod(preferGamepad, pad) = "keyboard"
    /\ Query("getStick", "LEFT").from = "keyboard"

Polls == {"keyboard.update", "gamepad.update"}

\* C26: every update polls the keyboard adapter and the gamepad adapter once
\* each, whatever the preference and the connection, and before any other
\* adapter method of the frame is called.
C26_PollBothFirst ==
    ts > 0 \/ adapterCalls # <<>> =>
        /\ \A m \in Polls :
              Cardinality({i \in 1..Len(adapterCalls) : adapterCalls[i] = m}) = 1
        /\ \A i, j \in 1..Len(adapterCalls) :
              (adapterCalls[i] \in Polls /\ adapterCalls[j] \notin Polls) => i < j

\* a frame with no gamepad, keyboard preferred: the gamepad is polled all the same
C26_Witness ==
    /\ ~preferGamepad
    /\ ~hwPad.connected
    /\ hwKeys.arrow = "up"
    /\ adapterCalls = <<"keyboard.update", "gamepad.update", "gamepad.isConnected",
                        "keyboard.justPressed", "gamepad.getDpad",
                        "keyboard.getArrowDir">>

\* the direction of a frame written as a function of the polled snapshots and
\* the preference alone
FrameDir(prefer, hw, k) ==
    IF prefer /\ PadShows(hw) # None THEN PadShows(hw) ELSE k.arrow

\* C27: the resolved direction is a function of the frame's snapshots (D-pad,
\* left stick, keyboard arrows) and the preference: the same snapshots and
\* preference give the same direction whatever the timer, the timestamp, the
\* select state and the earlier frames were.
C27_ResolutionIsPure ==
    [][/\ dir' = FrameDir(preferGamepad', hwPad', hwKeys')
       /\ (hwPad' = hwPad /\ hwKeys' = hwKeys /\ preferGamepad' = preferGamepad) =>
             dir' = dir
      ]_vars

\* up is resolved again in a frame that is late on its deadline and also
\* carries a select
C27_Witness ==
    /\ hwKeys.arrow = "up"
    /\ dir = "up"
    /\ before.dir = "up"
    /\ before.due = "late"
    /\ ts = 400
    /\ SelectsOf(events) # <<>>

\* C28: every emitted nav event carries one of the four directions and the
\* mode edge or repeat, and every emitted select event carries the source
\* keyboard or gamepad.
C28_EventsWellFormed ==
    \A i \in 1..Len(events) :
        /\ events[i].type \in {"nav", "select"}
        /\ IsNav(events[i]) =>
              /\ DOMAIN events[i] = {"type", "dir", "mode"}
              /\ events[i].dir \in {"up", "down", "left", "right"}
              /\ events[i].mode \in {"edge", "repeat"}
        /\ IsSelect(events[i]) =>
              /\ DOMAIN events[i] = {"type", "source"}
              /\ events[i].source \in {"keyboard", "gamepad"}

\* a frame that emits a keyboard select and a repeat, after frames with edges
C28_Witness ==
    /\ events = <<SelectEvent("keyboard"), NavEvent("up", "repeat")>>
    /\ runNav.n = 2

\* timestamps of a nav emission after which the clock of LiveSpec can still
\* pass the first delay
LiveTimes == {0, 100, 200, 300, 400, 500}

\* C29: while one direction stays resolved and the timestamps keep growing,
\* every nav emission for it is eventually followed by a repeat: a state whose
\* last nav event of the run was emitted at k leads to a later emission, or to
\* the direction being given up.
C29_RepeatsKeepComing ==
    \A k \in LiveTimes, d \in {"left", "right"} :
        (dir = d /\ runNav.mode # None /\ runNav.ts = k)
            ~> (dir # d \/ (runNav.mode = "repeat" /\ runNav.ts > k))

\* right held from 0: edge, then repeats at 300, 400 and 500
C29_Witness ==
    /\ dir = "right"
    /\ ts = 500
    /\ events = <<NavEvent("right", "repeat")>>
    /\ runNav = [mode |-> "repeat", ts |-> 500, n |-> 4]

\* C30: once the gamepad has been preferred and is gone, the keyboard keeps
\* working in every frame with no call other than update: an arrow going down
\* gives a nav edge for its direction, and SELECT going down gives a select.
C30_KeyboardFallback ==
    [][(preferGamepad' /\ ~hwPad'.connected) =>
          /\ dir' = hwKeys'.arrow
          /\ (hwKeys'.arrow # None /\ hwKeys'.arrow # dir) =>
                NavsOf(events') = <<NavEvent(hwKeys'.arrow, "edge")>>
          /\ ("SELECT" \in hwKeys'.keys /\ "SELECT" \notin hwKeys.keys) =>
                Len(SelectsOf(events')) = 1
      ]_vars

\* the pad goes away while its D-pad held left; in that frame the held up
\* arrow takes over and SELECT goes down
C30_Witness ==
    /\ preferGamepad
    /\ before.prefer
    /\ ~hwPad.connected
    /\ before.dir = "left"
    /\ Len(SelectsOf(events)) = 1
    /\ NavsOf(events) = <<NavEvent("up", "edge")>>

\* C31: while no gamepad is connected every query of the gamepad adapter
\* gives its neutral value, whatever was cached before: not connected, no
\* button just pressed, stick (0, 0), no D-pad, trigger 0, nothing pressed;
\* and a name that is no stick reads (0, 0) from getStick in every state.
C31_NeutralWhileAbsent ==
    /\ ~hwPad.connected =>
          /\ ~isConnected(pad)
          /\ ~getDpad(pad).present
          /\ getPressedButtons(pad) = {}
          /\ \A name \in BUTTONS \cup QueryNames :
                /\ ~justPressed(pad, _justPressed, name)
                /\ getStick(pad, axes, name) = <<0, 0>>
                /\ getTrigger(pad, name) = 0
    /\ \A name \in (BUTTONS \cup QueryNames) \ {"LEFT", "RIGHT"} :
          getStick(pad, axes, name) = <<0, 0>>

\* the pad went away with A and the D-pad held and the stick pushed
C31_Witness ==
    /\ preferGamepad
    /\ ~hwPad.connected
    /\ hwPad.buttons = {"A", "LEFT"}
    /\ hwPad.axes = <<90, 0>>
    /\ getStick(pad, axes, "LEFT") = <<0, 0>>

\* C32: after every update(ts) the timer's direction is the direction resolved
\* in that frame; it is none exactly when the deadline is 0; and a running
\* timer's deadline lies after ts and at most 220 after it.
C32_TimerState ==
    /\ _activeDir = dir
    /\ _activeDir = None <=> _nextRepeatAt = 0
    /\ _activeDir # None => (_nextRepeatAt > ts /\ _nextRepeatAt <= ts + 220)

\* a frame that has just repeated: the deadline is one repeat delay ahead
C32_Witness ==
    /\ _activeDir = "right"
    /\ events = <<NavEvent("right", "repeat")>>
    /\ ts > 220
    /\ _nextRepeatAt = ts + 85

\* the input that produced the direction of the last frame
Source == SourceOf(preferGamepad, pad, axes, hwKeys)

\* C33: the nav timer does not depend on which input produces the direction.
\* When the resolved direction is the same in two consecutive frames while the
\* input producing it changes (D-pad, stick, keyboard arrow, also in the frame
\* the gamepad connects or disconnects), no edge is emitted and the deadline is
\* not restarted: a repeat is emitted only when ts >= nextRepeatAt.
C33_SourceAgnostic ==
    [][(dir # None /\ dir' = dir /\ Source' # Source) =>
          IF Ge(ts', _nextRepeatAt)
          THEN /\ NavsOf(events') = <<NavEvent(dir, "repeat")>>
               /\ _nextRepeatAt' = ts' + _repeatDelay
          ELSE /\ NavsOf(events') = <<>>
               /\ _nextRepeatAt' = _nextRepeatAt
               /\ _activeDir' = _activeDir
      ]_vars

\* right came from the stick and, with the gamepad gone in this frame, comes
\* from the held arrow key: nothing is emitted and the deadline stands
C33_Witness ==
    /\ before.src = "stick"
    /\ Source = "keyboard"
    /\ ~hwPad.connected
    /\ before.dir = "right"
    /\ dir = "right"
    /\ before.due = "early"
    /\ events = <<>>
    /\ _nextRepeatAt = ts + _firstDelay

\* C34: the previous-button snapshot is cleared whenever the gamepad is absent,
\* so in the first polled frame after a connection or reconnection justPressed
\* is true for every mapped button that is down in that frame; a button A held
\* across a disconnect and reconnect emits a second select on the reconnect
\* frame.
C34_ReconnectIsFreshEdge ==
    [][/\ ~hwPad'.connected => _prevButtons' = {}
       /\ (~hwPad.connected /\ hwPad'.connected) =>
             /\ \A name \in BUTTONS \cup QueryNames :
                   justPressed(pad', _justPressed', name)
                       <=> (name \in MapButtons /\ name \in hwPad'.buttons)
             /\ "A" \in hwPad'.buttons =>
                   SelectsOf(events') = <<SelectEvent("gamepad")>>
      ]_vars

\* the gamepad was preferred, then gone, and is back in this frame with A down
\* as it was when it left: the held A is an edge again and select is emitted
C34_Witness ==
    /\ before.prefer
    /\ ~before.connected
    /\ hwPad.connected
    /\ "A" \in hwPad.buttons
    /\ justPressed(pad, _justPressed, "A")
    /\ events = <<SelectEvent("gamepad")>>

\* C35: the frame loop never halts: every tick(ts) calls update(ts) once and
\* requests one further tick, also after a frame in which an event listener
\* failed inside update(ts), so in every state exactly one tick is scheduled.
C35_LoopNeverHalts == rafQueue = 1

\* the elements b has after its prefix a
Suffix(a, b) == SubSeq(b, Len(a) + 1, Len(b))

\* C36: a sound requested while audio is locked is appended to pendingSounds
\* and not played; when the unlock completes, the queued sounds are played in
\* FIFO order and the queue is emptied; after that every request is played
\* immediately and nothing is queued.  audioUnlocked implies an empty queue,
\* and audioUnlocked never returns to false.
C36_PendingQueue ==
    [][/\ main'.audioUnlocked => main'.pendingSounds = <<>>
       /\ main.audioUnlocked => main'.audioUnlocked
       /\ ~main'.audioUnlocked =>
             /\ main'.played = main.played
             /\ main'.pendingSounds
                    = main.pendingSounds \o Suffix(main.requested, main'.requested)
       /\ (~main.audioUnlocked /\ main'.audioUnlocked) =>
             /\ main'.played = main.played \o main.pendingSounds
             /\ main'.requested = main.requested
       /\ main.audioUnlocked =>
             main'.played = main.played \o Suffix(main.requested, main'.requested)
      ]_vars

\* two sounds were queued while locked and played in that order by the
\* unlock; a third, requested after it, was played at once
C36_Witness ==
    /\ main.audioUnlocked
    /\ main.pendingSounds = <<>>
    /\ main.played = <<"carousel", "carouselRow", "nav">>
    /\ main.requested = main.played
    /\ main.handled.requests = 2
    /\ main.handled.unlocked
    /\ main.resolved = 1

C38_FocusRegionMachine ==
    /\ main.focusRegion \in {"nav", "carousel"}
    /\ LET h == main.handled
           req == SubSeq(main.requested, h.requests + 1, Len(main.requested))
       IN  h.dir # None =>
             IF h.mode = "repeat"
             THEN req = <<>> /\ main.focusRegion = h.region
             ELSE IF h.dir = "down" /\ h.region = "nav"
             THEN req = <<"carousel">> /\ main.focusRegion = "carousel"
             ELSE IF h.dir = "up" /\ h.region = "carousel"
             THEN req = <<"nav">> /\ main.focusRegion = "nav"
             ELSE IF h.dir \in {"left", "right"}
             THEN /\ req = <<IF h.region = "nav" THEN "nav" ELSE "carouselRow">>
                  /\ main.focusRegion = h.region
             ELSE req = <<>> /\ main.focusRegion = h.region

\* down moved the focus into the carousel, and the held down key then
\* repeated there: no sound, no change
C38_Witness ==
    /\ main.handled = [dir |-> "down", mode |-> "repeat", region |-> "carousel",
                       requests |-> 1, unlocked |-> FALSE]
    /\ main.focusRegion = "carousel"
    /\ main.requested = <<"carousel">>
    /\ events = <<NavEvent("down", "repeat")>>

\* C39: whenever handleInputPreference is called while a keyboard navigation
\* key or A is held down, it returns with the keyboard preferred, also on
\* repeated calls while the key stays down and a gamepad is connected.
C39_KeyboardWinsAndStays ==
    (probe.call = "handleInputPreference" /\ probe.held) =>
        /\ ~probe.raised
        /\ ~probe.after

\* C40: fed the same (resolved direction, timestamp) pairs with non-decreasing
\* timestamps, the legacy timer of processNavigationInputs emits a nav event
\* in exactly the frames, and with the dir, of the timer of update(ts); its
\* first emission of a run is the edge and the later ones are the repeats.
C40_TimersEquivalent ==
    /\ Len(legacy.events) = Len(NavsOf(events))
    /\ \A i \in 1..Len(legacy.events) :
          /\ legacy.events[i].dir = NavsOf(events)[i].dir
          /\ legacy.events[i].first <=> NavsOf(events)[i].mode = "edge"
    /\ legacy.currentDirection = _activeDir

\* both timers repeat in the frame that falls exactly on the first deadline
C40_Witness ==
    /\ ts = 220
    /\ before.due = "exact"
    /\ events = <<NavEvent("right", "repeat")>>
    /\ legacy.events = <<[dir |-> "right", first |-> FALSE]>>
    /\ legacy.lastInputTime = 220
    /\ ~legacy.isFirstInput

====
